---- MODULE Spec2Model ----
(***************************************************************************)
(* Model of retry(task, options) from src/src/retryit.ts.                  *)
(*                                                                         *)
(* One run of retry is modelled: the attempt loop (retryPromise), the      *)
(* optional timeout timer and the Promise.race that joins them.  The task, *)
(* the fallback, retryCondition and onRetry are supplied by the caller, so *)
(* what each of them does on a call is chosen nondeterministically: a task *)
(* or fallback promise resolves, rejects or never settles; a custom        *)
(* retryCondition returns true, returns false or throws; onRetry returns   *)
(* or throws.  Wall-clock time is not modelled: a task may take any time,  *)
(* so an armed timer may fire at any point after the synchronous part of   *)
(* the call.                                                               *)
(***************************************************************************)
EXTENDS Integers, Sequences, FiniteSets, TLC

\* ------------------------------------------------------------------ bounds
MaxRetries == 3

\* the largest retries of two calls of retry that run concurrently
MaxConcurrentRetries == 1

\* options.delay values tried (the tests use 100)
Delays == {0, 100}

\* options.timeout values tried; 0 stands for a falsy timeout (absent or 0)
Timeouts == {0, 150}

\* Math.random() * 100 lies in [0, 100): its bound, and the samples tried
JitterBound == 100

JitterValues == {0, JitterBound \div 2, JitterBound - 1}

\* ------------------------------------------------------------------- state
VARIABLES
    options,        \* the RetryOptions of the run
    pc,             \* where retryPromise is: idle, task, delay, fallback, done
    hung,           \* the promise retryPromise awaits will never settle
    attempt,        \* let attempt
    currentDelay,   \* let currentDelay
    timer,          \* the timeout timer: unset, armed, fired
    firedAt,        \* where retryPromise was when the timer fired, or none
    loopResult,     \* how the promise of retryPromise() settled
    outcome,        \* how the promise returned to the caller settled
    taskCalls,      \* number of task() calls made
    taskResults,    \* how each settled task() call settled, in order
    rcCalls,        \* retryCondition calls: the error passed and the result
    onRetryCalls,   \* onRetry calls: the arguments passed
    delays,         \* the length of every delay started, in order
    fallbackCalls,  \* number of fallback() calls made
    fallbackResults, \* how each settled fallback() call settled
    onRetryResults, \* what each onRetry call did: return or throw
    cur,            \* the call of retry whose state the variables above hold
    other           \* the saved state of the other call of retry, if any

vars == <<options, pc, hung, attempt, currentDelay, timer, firedAt, loopResult,
          outcome, taskCalls, taskResults, rcCalls, onRetryCalls, delays, fallbackCalls,
          fallbackResults, onRetryResults, cur, other>>

\* ----------------------------------------------------------------- values
\* A settled promise: a value or an error, who produced it, and on which call.
Settled(type, src, n) == [type |-> type, src |-> src, n |-> n]

Pending == Settled("pending", "none", 0)

\* the value / the error of the n-th task() call
TaskValue(n) == Settled("value", "task", n)

TaskError(n) == Settled("error", "task", n)

FallbackValue == Settled("value", "fallback", 1)

FallbackError == Settled("error", "fallback", 1)

\* what a throwing retryCondition / onRetry throws on its n-th call
ConditionError(n) == Settled("error", "retryCondition", n)

HookError(n) == Settled("error", "onRetry", n)

\* new Error('Retry timeout exceeded')
TimeoutError == Settled("error", "timeout", 0)

\* new Error('Retry failed unexpectedly')
UnexpectedError == Settled("error", "internal", 0)

\* ---------------------------------------------------------------- options
RetryOptions ==
    [retries : 0..MaxRetries,
     delay : Delays,
     exponentialBackoff : BOOLEAN,
     onRetry : {"absent", "set"},
     retryCondition : {"default", "custom"},
     timeout : Timeouts,
     fallback : {"absent", "set"}]

\* what a call of retryCondition may do: the default () => true returns true
ConditionResults ==
    IF options.retryCondition = "default" THEN {"true"} ELSE {"true", "false", "throw"}

\* what a call of onRetry may do
HookResults == {"return", "throw"}

\* ------------------------------------------------------- the code's tests
\* Each test or step of the code is an operator.  The operator defined right
\* before some of them is a faulty variant of that line (an off-by-one, a
\* dropped statement), used to see that the properties below notice the fault.
\* while (attempt <= retries)
\* faulty: attempt < retries
LoopConditionStrict(att) == att < options.retries

LoopCondition(att) == att <= options.retries

\* attempt++
\* faulty: the increment left out
NextAttemptSkipped(att) == att

NextAttempt(att) == att + 1

\* if (!retryCondition(error)): rc is what retryCondition returned
\* faulty: the result ignored
AbortsNever(rc) == FALSE

Aborts(rc) == rc = "false"

\* if (attempt > retries)
\* faulty: attempt >= retries
BudgetExceededEarly(att) == att >= options.retries

BudgetExceeded(att) == att > options.retries

\* if (fallback)
\* faulty: fallback ignored
UseFallbackNever == FALSE

UseFallback == options.fallback = "set"

\* if (onRetry) { onRetry(attempt, error) }: the calls made so far, and this one
\* faulty: the attempt number passed before the increment
CallOnRetryZeroBased(calls, att, error) ==
    IF options.onRetry = "set"
    THEN Append(calls, [attempt |-> att - 1, error |-> error])
    ELSE calls

CallOnRetry(calls, att, error) ==
    IF options.onRetry = "set"
    THEN Append(calls, [attempt |-> att, error |-> error])
    ELSE calls

\* onRetry(attempt, error) is called outside any try block: when it throws
\* (hook is what the call does), the throw leaves the catch block
\* faulty: the throw of onRetry swallowed
OnRetryThrowsSwallowed(hook) == FALSE

OnRetryThrows(hook) == options.onRetry = "set" /\ hook = "throw"

\* await new Promise(resolve => setTimeout(resolve, currentDelay)): the delays
\* started so far, and this one of length d
\* faulty: the delay not started
StartDelaySkipped(started, d) == started

StartDelay(started, d) == Append(started, d)

\* return await fallback(): a rejection of fallback() is not caught, so it is
\* the rejection of retryPromise; the task's last error is dropped
\* faulty: fallback's rejection caught and the task's error rethrown
FallbackFailureMasked(fallbackError, lastTaskError) == lastTaskError

FallbackFailure(fallbackError, lastTaskError) == fallbackError

\* if (timeout): the timer is armed only for a truthy timeout
\* faulty: no timer / a timer without timeout
ArmTimerNever == "unset"

ArmTimerAlways == "armed"

ArmTimer == IF options.timeout # 0 THEN "armed" ELSE "unset"

\* if (exponentialBackoff) { currentDelay *= 2; currentDelay += jitter }
\* faulty: the jitter added without the doubling
BackoffNoDoubling(d, jitter) == IF options.exponentialBackoff THEN d + jitter ELSE d

\* faulty: the jitter added before the doubling
BackoffJitterFirst(d, jitter) ==
    IF options.exponentialBackoff THEN (d + jitter) * 2 ELSE d

\* faulty: the flag not tested
BackoffAlways(d, jitter) == d * 2 + jitter

Backoff(d, jitter) == IF options.exponentialBackoff THEN d * 2 + jitter ELSE d

\* Promise.race / return retryPromise(): the caller's promise takes the first
\* settlement and ignores every later one
\* faulty: a later settlement replaces the first
RaceLastWins(current, r) == r

Race(current, r) == IF current = Pending THEN r ELSE current

\* ------------------------------------------------------------------- Init
\* the value of `other` when retry is called once only
NoCall == [pc |-> "none"]

Init ==
    /\ options \in RetryOptions
    /\ pc = "idle"
    /\ hung = FALSE
    /\ attempt = 0
    /\ currentDelay = options.delay
    /\ timer = "unset"
    /\ firedAt = "none"
    /\ loopResult = Pending
    /\ outcome = Pending
    /\ taskCalls = 0
    /\ taskResults = <<>>
    /\ rcCalls = <<>>
    /\ onRetryCalls = <<>>
    /\ delays = <<>>
    /\ fallbackCalls = 0
    /\ fallbackResults = <<>>
    /\ onRetryResults = <<>>
    /\ cur = 1
    /\ other = NoCall

\* ---------------------------------------------------------------- actions
\* retryPromise settles with r; the caller's promise settles with it unless
\* it has settled already.
Finish(r) ==
    /\ pc' = "done"
    /\ loopResult' = r
    /\ outcome' = Race(outcome, r)

\* The top of the while loop after `att` failures: the next task() call, or the
\* throw after the loop.
LoopTop(att) ==
    IF LoopCondition(att)
    THEN /\ pc' = "task"
         /\ taskCalls' = taskCalls + 1
         /\ UNCHANGED <<loopResult, outcome>>
    ELSE /\ Finish(UnexpectedError)
         /\ UNCHANGED taskCalls

\* The call retry(task, options): the timer is armed when timeout is set, and
\* retryPromise() runs synchronously up to its first await.
Retry ==
    /\ pc = "idle"
    /\ timer' = ArmTimer
    /\ LoopTop(attempt)
    /\ UNCHANGED <<cur, other, onRetryResults>>
    /\ UNCHANGED <<options, hung, firedAt, attempt, currentDelay, taskResults, rcCalls,
                   onRetryCalls, delays, fallbackCalls, fallbackResults>>

\* The awaited task() resolves: return await task()
TaskResolves ==
    /\ pc = "task"
    /\ ~hung
    /\ taskResults' = Append(taskResults, TaskValue(taskCalls))
    /\ Finish(TaskValue(taskCalls))
    /\ UNCHANGED <<cur, other, onRetryResults>>
    /\ UNCHANGED <<options, hung, attempt, currentDelay, timer, firedAt, taskCalls,
                   rcCalls, onRetryCalls, delays, fallbackCalls, fallbackResults>>

\* The awaited task() rejects: the catch block, up to its next await or exit.
\* rc is what retryCondition does with the error, hook what onRetry does.
TaskRejects(rc, hook) ==
    LET error == TaskError(taskCalls)
        att == NextAttempt(attempt)
    IN
    /\ pc = "task"
    /\ ~hung
    /\ taskResults' = Append(taskResults, error)
    /\ rcCalls' = Append(rcCalls, [error |-> error, result |-> rc])
    /\ UNCHANGED <<cur, other>>
    /\ UNCHANGED <<options, hung, currentDelay, timer, firedAt, taskCalls,
                   fallbackResults>>
    /\ IF rc = "throw"
       THEN \* retryCondition(error) throws out of the catch block
            /\ Finish(ConditionError(Len(rcCalls) + 1))
            /\ UNCHANGED <<attempt, onRetryCalls, onRetryResults, delays,
                           fallbackCalls>>
       ELSE IF Aborts(rc)
       THEN \* throw error: abort
            /\ Finish(error)
            /\ UNCHANGED <<attempt, onRetryCalls, onRetryResults, delays,
                           fallbackCalls>>
       ELSE /\ attempt' = att
            /\ IF BudgetExceeded(att)
               THEN /\ UNCHANGED <<onRetryCalls, onRetryResults, delays>>
                    /\ IF UseFallback
                       THEN \* return await fallback()
                            /\ pc' = "fallback"
                            /\ fallbackCalls' = fallbackCalls + 1
                            /\ UNCHANGED <<loopResult, outcome>>
                       ELSE \* throw error: after max retries
                            /\ Finish(error)
                            /\ UNCHANGED fallbackCalls
               ELSE /\ UNCHANGED fallbackCalls
                    /\ onRetryCalls' = CallOnRetry(onRetryCalls, att, error)
                    /\ onRetryResults' =
                          IF options.onRetry = "set"
                          THEN Append(onRetryResults, hook)
                          ELSE onRetryResults
                    /\ IF OnRetryThrows(hook)
                       THEN \* onRetry(attempt, error) throws out of the catch block
                            /\ Finish(HookError(Len(onRetryCalls) + 1))
                            /\ UNCHANGED delays
                       ELSE \* await new Promise(r => setTimeout(r, currentDelay))
                            /\ pc' = "delay"
                            /\ delays' = StartDelay(delays, currentDelay)
                            /\ UNCHANGED <<loopResult, outcome>>

\* The delay timer fires: the backoff step, then the top of the loop.
DelayElapses(jitter) ==
    /\ pc = "delay"
    /\ currentDelay' = Backoff(currentDelay, jitter)
    /\ LoopTop(attempt)
    /\ UNCHANGED <<cur, other, onRetryResults>>
    /\ UNCHANGED <<options, hung, attempt, timer, firedAt, taskResults, rcCalls,
                   onRetryCalls, delays, fallbackCalls, fallbackResults>>

\* The awaited fallback() resolves: its value is returned.
FallbackResolves ==
    /\ pc = "fallback"
    /\ ~hung
    /\ fallbackResults' = Append(fallbackResults, FallbackValue)
    /\ Finish(FallbackValue)
    /\ UNCHANGED <<cur, other, onRetryResults>>
    /\ UNCHANGED <<options, hung, attempt, currentDelay, timer, firedAt, taskCalls,
                   taskResults, rcCalls, onRetryCalls, delays, fallbackCalls>>

\* The awaited fallback() rejects: the rejection leaves retryPromise uncaught.
FallbackRejects ==
    /\ pc = "fallback"
    /\ ~hung
    /\ fallbackResults' = Append(fallbackResults, FallbackError)
    /\ Finish(FallbackFailure(FallbackError, TaskError(taskCalls)))
    /\ UNCHANGED <<cur, other, onRetryResults>>
    /\ UNCHANGED <<options, hung, attempt, currentDelay, timer, firedAt, taskCalls,
                   taskResults, rcCalls, onRetryCalls, delays, fallbackCalls>>

\* The promise returned by task() or fallback() is one that never settles.
NeverSettles ==
    /\ pc \in {"task", "fallback"}
    /\ ~hung
    /\ hung' = TRUE
    /\ UNCHANGED <<cur, other, onRetryResults>>
    /\ UNCHANGED <<options, pc, attempt, currentDelay, timer, firedAt, loopResult,
                   outcome, taskCalls, taskResults, rcCalls, onRetryCalls, delays,
                   fallbackCalls, fallbackResults>>

\* The timeout timer fires: reject(new Error('Retry timeout exceeded')).  The
\* timer is never cleared, so it also fires after retryPromise has settled.
TimerFires ==
    /\ timer = "armed"
    /\ timer' = "fired"
    /\ firedAt' = pc
    /\ outcome' = Race(outcome, TimeoutError)
    /\ UNCHANGED <<cur, other, onRetryResults>>
    /\ UNCHANGED <<options, pc, hung, attempt, currentDelay, loopResult, taskCalls,
                   taskResults, rcCalls, onRetryCalls, delays, fallbackCalls,
                   fallbackResults>>

TaskSettles ==
    \/ TaskResolves
    \/ \E rc \in ConditionResults, hook \in HookResults : TaskRejects(rc, hook)

DelayTimerFires == \E jitter \in JitterValues : DelayElapses(jitter)

FallbackSettles == FallbackResolves \/ FallbackRejects

Next ==
    \/ Retry
    \/ TaskResolves
    \/ \E rc \in ConditionResults, hook \in HookResults : TaskRejects(rc, hook)
    \/ \E jitter \in JitterValues : DelayElapses(jitter)
    \/ FallbackResolves
    \/ FallbackRejects
    \/ NeverSettles
    \/ TimerFires

Spec == Init /\ [][Next]_vars

\* ------------------------------------------------------- concurrent calls
\* Two calls of retry in one event loop.  Each action above is one synchronous
\* block of one call and runs to completion; between two blocks the event loop
\* may go on with the other call.  The variables hold the state of call `cur`,
\* `other` holds the state of the other call.

\* Everything a call of retry keeps lives in that call: its options, the
\* locals attempt and currentDelay, its closures, promises and timers.
SaveCall ==
    [options |-> options, pc |-> pc, hung |-> hung, attempt |-> attempt,
     currentDelay |-> currentDelay, timer |-> timer, firedAt |-> firedAt,
     loopResult |-> loopResult, outcome |-> outcome, taskCalls |-> taskCalls,
     taskResults |-> taskResults, rcCalls |-> rcCalls,
     onRetryCalls |-> onRetryCalls, delays |-> delays,
     fallbackCalls |-> fallbackCalls, fallbackResults |-> fallbackResults,
     onRetryResults |-> onRetryResults]

\* a call with options o that has not started
InitialCall(o) ==
    [options |-> o, pc |-> "idle", hung |-> FALSE, attempt |-> 0,
     currentDelay |-> o.delay, timer |-> "unset", firedAt |-> "none",
     loopResult |-> Pending, outcome |-> Pending, taskCalls |-> 0,
     taskResults |-> <<>>, rcCalls |-> <<>>, onRetryCalls |-> <<>>,
     delays |-> <<>>, fallbackCalls |-> 0, fallbackResults |-> <<>>,
     onRetryResults |-> <<>>]

\* the options of the two concurrent calls: up to MaxConcurrentRetries retries,
\* with or without a timeout, either exponential backoff or a fixed delay with
\* a fallback
ConcurrentOptions ==
    {o \in RetryOptions :
        /\ o.retries <= MaxConcurrentRetries
        /\ o.delay = 100
        /\ o.onRetry = "set"
        /\ o.retryCondition = "default"
        /\ (o.fallback = "set") = ~o.exponentialBackoff}

\* let attempt = 0 and let currentDelay = delay are declared inside retry: a
\* call that goes on finds its own value (own), not the value the call that
\* ran last left (last)
\* faulty: attempt declared outside retry, one variable for all calls
AttemptShared(own, last) == last

AttemptOf(own, last) == own

CurrentDelayOf(own, last) == own

ConcurrentInit ==
    /\ options \in ConcurrentOptions
    /\ pc = "idle"
    /\ hung = FALSE
    /\ attempt = 0
    /\ currentDelay = options.delay
    /\ timer = "unset"
    /\ firedAt = "none"
    /\ loopResult = Pending
    /\ outcome = Pending
    /\ taskCalls = 0
    /\ taskResults = <<>>
    /\ rcCalls = <<>>
    /\ onRetryCalls = <<>>
    /\ delays = <<>>
    /\ fallbackCalls = 0
    /\ fallbackResults = <<>>
    /\ onRetryResults = <<>>
    /\ cur = 1
    /\ other \in {InitialCall(o) : o \in ConcurrentOptions}

\* The event loop goes on with the other call.
Switch ==
    /\ other # NoCall
    /\ cur' = 3 - cur
    /\ other' = SaveCall
    /\ options' = other.options
    /\ pc' = other.pc
    /\ hung' = other.hung
    /\ attempt' = AttemptOf(other.attempt, attempt)
    /\ currentDelay' = CurrentDelayOf(other.currentDelay, currentDelay)
    /\ timer' = other.timer
    /\ firedAt' = other.firedAt
    /\ loopResult' = other.loopResult
    /\ outcome' = other.outcome
    /\ taskCalls' = other.taskCalls
    /\ taskResults' = other.taskResults
    /\ rcCalls' = other.rcCalls
    /\ onRetryCalls' = other.onRetryCalls
    /\ delays' = other.delays
    /\ fallbackCalls' = other.fallbackCalls
    /\ fallbackResults' = other.fallbackResults
    /\ onRetryResults' = other.onRetryResults

ConcurrentNext == Next \/ Switch

ConcurrentSpec == ConcurrentInit /\ [][ConcurrentNext]_vars

\* The event loop runs every timer that is due and every settled promise's
\* continuation; a promise that never settles (hung) has no continuation.
FairSpec ==
    /\ Spec
    /\ WF_vars(TaskSettles)
    /\ WF_vars(DelayTimerFires)
    /\ WF_vars(FallbackSettles)
    /\ WF_vars(TimerFires)

\* ------------------------------------------------------- claims: helpers
\* the i-th task() call rejected and retryCondition returned true for its error
FailedAccepted(i) ==
    /\ i <= Len(taskResults)
    /\ i <= Len(rcCalls)
    /\ taskResults[i] = Settled("error", "task", i)
    /\ rcCalls[i] = [error |-> Settled("error", "task", i), result |-> "true"]

\* the timeout timer fired while retryPromise had not settled
TimerFiredFirst == firedAt \notin {"none", "done"}

\* number of onRetry calls expected after n retried failures
HookCalls(n) == IF options.onRetry = "set" THEN n ELSE 0

\* ------------------------------------------------------------------ C1
\* C1: in every reachable state the number of task() calls made so far is at
\* most retries + 1, whatever the task, retryCondition, fallback and timer do.
C1_InvocationsBounded == taskCalls <= options.retries + 1

\* the full budget is used in a run whose timer fired during the first attempt
C1_Witness ==
    /\ options.retries = MaxRetries
    /\ taskCalls = MaxRetries + 1
    /\ firedAt = "task"
    /\ Len(taskResults) = MaxRetries + 1

\* ------------------------------------------------------------------ C2
\* C2: for 1 <= k <= retries + 1, when calls 1..k-1 of task rejected with
\* accepted errors and call k resolved, and the timer did not fire first, the
\* caller's promise is resolved with the value of call k, task has been called
\* exactly k times (in this and every later state), onRetry (when set) k-1
\* times, and k-1 delays were started.
C2_SuccessOnAttemptK ==
    \A k \in 1..(options.retries + 1) :
        ( /\ Len(taskResults) >= k
          /\ taskResults[k].type = "value"
          /\ \A i \in 1..(k - 1) : FailedAccepted(i)
          /\ ~TimerFiredFirst )
        => /\ outcome = Settled("value", "task", k)
           /\ loopResult = outcome
           /\ pc = "done"
           /\ taskCalls = k
           /\ Len(taskResults) = k
           /\ Len(onRetryCalls) = HookCalls(k - 1)
           /\ Len(delays) = k - 1
           /\ fallbackCalls = 0

\* success on the third call, onRetry set, and the timer fired afterwards
C2_Witness ==
    /\ Len(taskResults) = 3
    /\ taskResults[3].type = "value"
    /\ options.onRetry = "set"
    /\ Len(onRetryCalls) = 2
    /\ firedAt = "done"
    /\ outcome = Settled("value", "task", 3)

\* ------------------------------------------------------------------ C3
\* every task() call of the finished run rejected with an accepted error, and
\* neither fallback nor timeout is set
AlwaysFailed ==
    /\ pc = "done"
    /\ options.fallback = "absent"
    /\ options.timeout = 0
    /\ Len(rcCalls) = Len(taskResults)
    /\ \A i \in 1..Len(taskResults) : FailedAccepted(i)

ExhaustedAfterAllRetries ==
    /\ taskCalls = options.retries + 1
    /\ Len(taskResults) = options.retries + 1
    /\ Len(onRetryCalls) = HookCalls(options.retries)
    /\ outcome = Settled("error", "task", options.retries + 1)

C4_RejectedErrorAborts ==
    \A n \in 1..Len(rcCalls) :
        rcCalls[n].result = "false"
        => /\ n = Len(rcCalls)
           /\ pc = "done"
           /\ loopResult = Settled("error", "task", n)
           /\ rcCalls[n].error = loopResult
           /\ taskCalls = n
           /\ Len(taskResults) = n
           /\ attempt = n - 1
           /\ Len(onRetryCalls) = HookCalls(n - 1)
           /\ Len(delays) = n - 1
           /\ fallbackCalls = 0

\* an error is rejected on the second call while two retries are still left,
\* and the timer fires afterwards
C4_Witness ==
    /\ options.retries = 3
    /\ options.fallback = "set"
    /\ Len(rcCalls) = 2
    /\ rcCalls[2].result = "false"
    /\ firedAt = "done"

\* ------------------------------------------------------------------ C5
\* task has failed retries + 1 times, each error accepted by retryCondition
BudgetExhausted ==
    /\ Len(taskResults) = options.retries + 1
    /\ \A i \in 1..(options.retries + 1) : FailedAccepted(i)

\* fallback is called at most once, and only after retries + 1 failed task calls
FallbackOnlyAfterExhaustion ==
    /\ fallbackCalls <= 1
    /\ Len(fallbackResults) <= fallbackCalls
    /\ fallbackCalls = 1
       => /\ taskCalls = options.retries + 1
          /\ Len(taskResults) = options.retries + 1
          /\ \A i \in 1..(options.retries + 1) : taskResults[i].type = "error"

\* C5 as stated: with fallback set and the budget exhausted, fallback is called
\* exactly once and, when it resolves, the caller's promise is resolved with its
\* value; fallback is called at most once, and only after retries + 1 failed
\* task calls.
C5_Fallback_AsStated ==
    /\ (options.fallback = "set" /\ BudgetExhausted)
       => /\ fallbackCalls = 1
          /\ fallbackResults = <<Settled("value", "fallback", 1)>>
             => outcome = Settled("value", "fallback", 1)
    /\ FallbackOnlyAfterExhaustion

\* C5 (amended): the caller's promise is resolved with fallback's value unless
\* the timeout timer fired before fallback resolved; retryPromise itself always
\* returns fallback's value.
C5_Fallback ==
    /\ (options.fallback = "set" /\ BudgetExhausted)
       => /\ fallbackCalls = 1
          /\ fallbackResults = <<Settled("value", "fallback", 1)>>
             => /\ loopResult = Settled("value", "fallback", 1)
                /\ ~TimerFiredFirst => outcome = Settled("value", "fallback", 1)
    /\ FallbackOnlyAfterExhaustion

\* fallback resolved after the full budget of failures, and the timer fired later
C5_Witness ==
    /\ options.retries = MaxRetries
    /\ options.fallback = "set"
    /\ BudgetExhausted
    /\ fallbackResults = <<Settled("value", "fallback", 1)>>
    /\ outcome = Settled("value", "fallback", 1)
    /\ firedAt = "done"

\* ------------------------------------------------------------------ C6
\* after fallback's failure nothing is called again: task and retryCondition
\* were called retries + 1 times, onRetry retries times, fallback once
NothingAfterFallbackFailure ==
    /\ pc = "done"
    /\ taskCalls = options.retries + 1
    /\ fallbackCalls = 1
    /\ Len(rcCalls) = options.retries + 1
    /\ Len(onRetryCalls) = HookCalls(options.retries)
    /\ Len(delays) = options.retries

\* C6 as stated: when fallback is called and rejects, the caller's promise is
\* rejected with fallback's error, and afterwards nothing is called again.
C6_FallbackFailure_AsStated ==
    fallbackResults = <<Settled("error", "fallback", 1)>>
    => /\ outcome = Settled("error", "fallback", 1)
       /\ NothingAfterFallbackFailure

\* C6 (amended): retryPromise is rejected with fallback's error, and so is the
\* caller's promise unless the timeout timer fired before fallback rejected.
C6_FallbackFailure ==
    fallbackResults = <<Settled("error", "fallback", 1)>>
    => /\ loopResult = Settled("error", "fallback", 1)
       /\ ~TimerFiredFirst => outcome = Settled("error", "fallback", 1)
       /\ NothingAfterFallbackFailure

C6_Witness ==
    /\ options.retries = MaxRetries
    /\ options.onRetry = "set"
    /\ fallbackResults = <<Settled("error", "fallback", 1)>>
    /\ outcome = Settled("error", "fallback", 1)
    /\ firedAt = "done"

\* ------------------------------------------------------------------ C7
\* C7: when the timer fires before retryPromise has settled, the caller's
\* promise is rejected with the timeout error, wherever the loop is and however
\* it settles later; with timeout not set no timer exists and the caller's
\* promise is never rejected with the timeout error.
C7_Timeout ==
    /\ TimerFiredFirst => outcome = Settled("error", "timeout", 0)
    /\ options.timeout = 0
       => /\ timer = "unset"
          /\ outcome # Settled("error", "timeout", 0)

\* the timer fired during a delay with retries left, and a later task call
\* resolved
C7_Witness ==
    /\ firedAt = "delay"
    /\ loopResult.type = "value"
    /\ loopResult.src = "task"
    /\ attempt < options.retries
    /\ outcome = Settled("error", "timeout", 0)

\* ------------------------------------------------------------------ C8
\* the kinds of outcome the claim lists
IsTaskValue(o) ==
    /\ o.type = "value" /\ o.src = "task"
    /\ o.n \in 1..Len(taskResults)
    /\ taskResults[o.n] = o

IsFallbackValue(o) ==
    /\ o = Settled("value", "fallback", 1)
    /\ fallbackResults = <<o>>

IsRejectedTaskError(o) ==
    /\ o.type = "error" /\ o.src = "task"
    /\ o.n \in 1..Len(rcCalls)
    /\ rcCalls[o.n] = [error |-> o, result |-> "false"]

IsLastTaskError(o) ==
    /\ o = Settled("error", "task", options.retries + 1)
    /\ taskCalls = options.retries + 1
    /\ FailedAccepted(options.retries + 1)
    /\ options.fallback = "absent"

IsTimeoutError(o) ==
    /\ o = Settled("error", "timeout", 0)
    /\ timer = "fired"

\* the kinds it does not list
IsFallbackError(o) ==
    /\ o = Settled("error", "fallback", 1)
    /\ fallbackResults = <<o>>

IsThrownByCallback(o) ==
    /\ o.type = "error"
    /\ \/ o.src = "retryCondition" /\ o.n = Len(rcCalls) /\ rcCalls[o.n].result = "throw"
       \/ o.src = "onRetry" /\ o.n = Len(onRetryCalls)

OneOfFiveKinds(o) ==
    \/ IsTaskValue(o)
    \/ IsFallbackValue(o)
    \/ IsRejectedTaskError(o)
    \/ IsLastTaskError(o)
    \/ IsTimeoutError(o)

\* C8 as stated: a delivered outcome is one of the five kinds (a task value,
\* fallback's value, a task error rejected by retryCondition, the last task
\* error after exhaustion, the timeout error) and never changes afterwards.
C8_OneOutcome_AsStated ==
    /\ [](outcome # Pending => OneOfFiveKinds(outcome))
    /\ [][outcome # Pending => outcome' = outcome]_vars

\* C8 (amended): a delivered outcome is one of the five kinds, or fallback's
\* error, or an error thrown by retryCondition or onRetry; once delivered it
\* never changes, whatever the timer or the loop do afterwards.
C8_OneOutcome ==
    /\ [](outcome # Pending
          => \/ OneOfFiveKinds(outcome)
             \/ IsFallbackError(outcome)
             \/ IsThrownByCallback(outcome))
    /\ [][outcome # Pending => outcome' = outcome]_vars

\* the timer fired first and the loop went on to finish with a task value that
\* is not delivered
C8_Witness ==
    /\ outcome = Settled("error", "timeout", 0)
    /\ loopResult.type = "value"
    /\ pc = "done"

\* ------------------------------------------------------------------ C9
\* C9: the i-th onRetry call receives attempt number i and the error of the
\* i-th task() call, a failure accepted by retryCondition that is not the
\* (retries+1)-th; with onRetry set every failure followed by another task()
\* call has its onRetry call; no other onRetry call is made.
C9_OnRetryCalls ==
    /\ \A i \in 1..Len(onRetryCalls) :
          /\ onRetryCalls[i] = [attempt |-> i, error |-> Settled("error", "task", i)]
          /\ FailedAccepted(i)
          /\ i <= options.retries
    /\ Len(onRetryCalls) <= Len(taskResults)
    /\ options.onRetry = "set" => Len(onRetryCalls) >= taskCalls - 1
    /\ options.onRetry = "absent" => onRetryCalls = <<>>

\* three retried failures, then the failure that exhausts the budget
C9_Witness ==
    /\ options.retries = 3
    /\ Len(onRetryCalls) = 3
    /\ Len(taskResults) = 4
    /\ taskResults[4].type = "error"
    /\ pc = "done"

\* ----------------------------------------------------------------- C10
\* C10: a run that has started eventually delivers an outcome to its caller
\* when timeout is set (even with a task or fallback promise that never
\* settles), and when timeout is not set unless a task or fallback promise
\* never settles.
C10_Terminates ==
    (pc # "idle") ~> (outcome # Pending \/ (options.timeout = 0 /\ hung))

\* the task never settles and the timer delivers the outcome
C10_Witness ==
    /\ hung
    /\ pc = "task"
    /\ options.timeout # 0
    /\ outcome = Settled("error", "timeout", 0)

\* ----------------------------------------------------------------- C12
\* C12: once the timeout timer has fired, the run makes no further task() call,
\* onRetry call, delay or fallback() call (so a timer that fires during the
\* first attempt leaves task called exactly once).
C12_FiredPreemptsLoop ==
    [][timer = "fired"
       => /\ taskCalls' = taskCalls
          /\ onRetryCalls' = onRetryCalls
          /\ delays' = delays
          /\ fallbackCalls' = fallbackCalls]_vars

\* ----------------------------------------------------------------- C13
\* number of task failures accepted by retryCondition while attempts remained
EligibleFailures ==
    Cardinality({i \in 1..Len(rcCalls) :
                    rcCalls[i].result = "true" /\ i <= options.retries})

\* number of onRetry calls that threw
ThrownHooks ==
    Cardinality({i \in 1..Len(onRetryResults) : onRetryResults[i] = "throw"})

\* the order of the steps after an accepted failure: retryCondition, the
\* increment, onRetry with the new counter value, the delay of the current
\* length, and only then the next task() call
RetryStepsInOrder ==
    /\ attempt = Cardinality({i \in 1..Len(rcCalls) : rcCalls[i].result = "true"})
    /\ \A i \in 1..Len(delays) :
          /\ FailedAccepted(i)
          /\ i <= options.retries
          /\ options.onRetry = "set"
             => /\ onRetryCalls[i].attempt = i
                /\ onRetryResults[i] = "return"
    /\ pc = "delay"
       => /\ attempt = Len(delays)
          /\ taskCalls = Len(delays)
          /\ Len(taskResults) = Len(delays)
          /\ delays[Len(delays)] = currentDelay
    /\ pc = "task"
       => /\ attempt = Len(delays)
          /\ taskCalls = Len(delays) + 1

\* C13 as stated: the steps occur in that order after every accepted failure
\* with attempts left, and the number of delays started always equals the
\* number of such failures.
C13_RetrySteps_AsStated ==
    /\ RetryStepsInOrder
    /\ Len(delays) = EligibleFailures

\* C13 (amended): the same, except that no delay is started after a failure
\* whose onRetry call throws.
C13_RetrySteps ==
    /\ RetryStepsInOrder
    /\ Len(delays) = EligibleFailures - ThrownHooks

\* the third task() call is in flight after two retried failures with backoff
C13_Witness ==
    /\ pc = "task"
    /\ taskCalls = 3
    /\ Len(delays) = 2
    /\ options.onRetry = "set"
    /\ options.exponentialBackoff
    /\ delays[2] > delays[1]

\* ----------------------------------------------------------------- C14
\* C14: with exponentialBackoff, delay = 100 and integer jitter in 0..99, the
\* delays waited are non-decreasing and the i-th delay d_i satisfies
\* 100 * 2^(i-1) <= d_i < 100 * 2^i + 100.
C14_BackoffBounds ==
    (options.exponentialBackoff /\ options.delay = 100)
    => \A i \in 1..Len(delays) :
          /\ 100 * 2^(i - 1) <= delays[i]
          /\ delays[i] < 100 * 2^i + JitterBound
          /\ i > 1 => delays[i - 1] <= delays[i]

\* three delays, each after the largest jitter: 100, 299, 697
C14_Witness ==
    /\ options.exponentialBackoff
    /\ options.delay = 100
    /\ Len(delays) = 3
    /\ delays[2] = 2 * 100 + (JitterBound - 1)
    /\ delays[3] = 2 * delays[2] + (JitterBound - 1)

\* ----------------------------------------------------------------- C15
\* C15: with exponentialBackoff, delay = 100 and jitter in [0, 100), the i-th
\* delay stays strictly below delay * 2^i (below 200, 400, 800, ...), however
\* much jitter has accumulated.
C15_JitterStaysInBand ==
    (options.exponentialBackoff /\ options.delay = 100)
    => \A i \in 1..Len(delays) :
          /\ i <= options.retries
          /\ delays[i] < options.delay * 2^i

\* the last delay of a run with the largest jitter at every step
C15_Witness ==
    /\ options.exponentialBackoff
    /\ options.delay = 100
    /\ options.retries = MaxRetries
    /\ Len(delays) = MaxRetries
    /\ \A i \in 2..MaxRetries : delays[i] = 2 * delays[i - 1] + (JitterBound - 1)
    /\ pc = "done"

\* ----------------------------------------------------------------- C16
\* C16: currentDelay starts as options.delay and is changed only by the
\* backoff step at the end of a delay, and only with exponentialBackoff:
\* without it every delay waited equals options.delay, with it the first delay
\* still equals options.delay.
C16_CurrentDelayFrame ==
    /\ [](/\ pc = "idle" => currentDelay = options.delay
          /\ Len(delays) >= 1 => delays[1] = options.delay
          /\ ~options.exponentialBackoff
             => /\ currentDelay = options.delay
                /\ \A i \in 1..Len(delays) : delays[i] = options.delay)
    /\ [][currentDelay' # currentDelay
          => /\ pc = "delay"
             /\ pc' # "delay"
             /\ options.exponentialBackoff]_vars

\* a later delay differs from the first, which is options.delay
C16_Witness ==
    /\ options.exponentialBackoff
    /\ Len(delays) = 2
    /\ delays[1] = options.delay
    /\ delays[2] > delays[1]
    /\ timer = "fired"

\* ----------------------------------------------------------------- C17
\* task() calls made and not yet settled (a promise that never settles stays
\* in flight)
InFlight == taskCalls - Len(taskResults)

\* C17: at most one task() call of the run is in flight at any time, and call
\* n + 1 is made only after call n has rejected and the delay that followed it
\* has elapsed, also while a timeout timer is armed.
C17_NoOverlap ==
    /\ InFlight \in {0, 1}
    /\ InFlight = 1 <=> pc = "task"
    /\ \A n \in 1..(taskCalls - 1) :
          /\ n <= Len(taskResults)
          /\ taskResults[n].type = "error"
          /\ n <= Len(delays)
    /\ pc = "delay" => taskCalls = Len(delays)

\* the third call is in flight while the timer is armed
C17_Witness ==
    /\ timer = "armed"
    /\ pc = "task"
    /\ taskCalls = 3
    /\ Len(taskResults) = 2
    /\ Len(delays) = 2

\* ----------------------------------------------------------------- C18
\* retryCondition is called once for every failed task() call, and for nothing
\* else
ConditionCalledPerFailure ==
    /\ Len(rcCalls) = Cardinality({i \in 1..Len(taskResults) :
                                      taskResults[i].type = "error"})
    /\ \A i \in 1..Len(rcCalls) : rcCalls[i].error = Settled("error", "task", i)

\* C18 as stated: a failure rejected by retryCondition never triggers fallback,
\* even on the (retries+1)-th call with fallback set; the run rejects with the
\* task's error; retryCondition is called exactly once per failed task() call.
C18_RejectedSkipsFallback_AsStated ==
    /\ \A n \in 1..Len(rcCalls) :
          rcCalls[n].result = "false"
          => /\ fallbackCalls = 0
             /\ outcome = Settled("error", "task", n)
    /\ ConditionCalledPerFailure

\* C18 (amended): retryPromise rejects with the task's error, and so does the
\* run unless the timeout timer fired first.
C18_RejectedSkipsFallback ==
    /\ \A n \in 1..Len(rcCalls) :
          rcCalls[n].result = "false"
          => /\ fallbackCalls = 0
             /\ loopResult = Settled("error", "task", n)
             /\ ~TimerFiredFirst => outcome = Settled("error", "task", n)
    /\ ConditionCalledPerFailure

\* the error of the last call the budget allows is rejected, with fallback set
C18_Witness ==
    /\ options.fallback = "set"
    /\ options.retries = MaxRetries
    /\ Len(rcCalls) = MaxRetries + 1
    /\ rcCalls[MaxRetries + 1].result = "false"
    /\ outcome = Settled("error", "task", MaxRetries + 1)

\* ----------------------------------------------------------------- C19
\* after the n-th task() call failed, a callback threw error e: the loop has
\* ended with e, and no task() call, delay or fallback() call followed
LoopEndedByThrow(n, e) ==
    /\ pc = "done"
    /\ loopResult = e
    /\ loopResult.src # "task"
    /\ taskCalls = n
    /\ Len(taskResults) = n
    /\ Len(delays) = n - 1
    /\ fallbackCalls = 0
    /\ ~TimerFiredFirst => outcome = e

\* C19: when retryCondition or onRetry throws, retryPromise is rejected with
\* the thrown error at once: no task() call, delay or fallback() call follows,
\* and the caller's promise is rejected with the thrown error unless the
\* timeout timer had fired before.
C19_CallbackThrowEndsLoop ==
    /\ \A n \in 1..Len(rcCalls) :
          rcCalls[n].result = "throw"
          => /\ n = Len(rcCalls)
             /\ Len(onRetryCalls) = HookCalls(n - 1)
             /\ LoopEndedByThrow(n, Settled("error", "retryCondition", n))
    /\ \A n \in 1..Len(onRetryResults) :
          onRetryResults[n] = "throw"
          => /\ n = Len(onRetryResults)
             /\ Len(onRetryCalls) = n
             /\ LoopEndedByThrow(n, Settled("error", "onRetry", n))

\* onRetry throws on its second call, with retries and a fallback left
C19_Witness ==
    /\ options.retries = 3
    /\ options.fallback = "set"
    /\ onRetryResults = <<"return", "throw">>
    /\ outcome = Settled("error", "onRetry", 2)

\* ----------------------------------------------------------------- C20
\* C20: attempt stays within 0..retries+1, the loop is entered again only with
\* attempt <= retries, and retryPromise never ends with 'Retry failed
\* unexpectedly': it ends with a task or fallback value or with an error thrown
\* inside the catch block.
C20_LoopNeverFallsThrough ==
    /\ attempt \in 0..(options.retries + 1)
    /\ pc \in {"task", "delay"} => attempt <= options.retries
    /\ loopResult # Settled("error", "internal", 0)
    /\ outcome # Settled("error", "internal", 0)
    /\ pc = "done"
       => /\ loopResult.type \in {"value", "error"}
          /\ loopResult.type = "value" => loopResult.src \in {"task", "fallback"}
          /\ loopResult.type = "error"
             => /\ loopResult.src \in {"task", "fallback", "retryCondition", "onRetry"}
                /\ Len(rcCalls) >= 1

\* the counter reaches retries + 1 on the failure that exhausts the budget
C20_Witness ==
    /\ options.retries = MaxRetries
    /\ attempt = MaxRetries + 1
    /\ pc = "done"
    /\ loopResult = Settled("error", "task", MaxRetries + 1)

\* ----------------------------------------------------------------- C11
\* the state of call r of the two concurrent calls
CallState(r) == IF cur = r THEN SaveCall ELSE other

\* what holds of a call that runs alone, whatever its task does: the attempt
\* counter counts its own accepted failures, its task() calls are bounded by
\* its own retries, and its onRetry calls get its own attempt numbers and errors
AsIfAlone ==
    /\ C1_InvocationsBounded
    /\ C9_OnRetryCalls
    /\ RetryStepsInOrder
    /\ ~options.exponentialBackoff => currentDelay = options.delay

\* C11: two concurrent calls share no state.  A step of one call changes
\* nothing of the other call (attempt, currentDelay, task() calls, onRetry
\* arguments, outcome), going from one call to the other changes nothing of
\* either, so each call runs through the states it runs through alone, under
\* every interleaving.
C11_CallsIndependent ==
    /\ []AsIfAlone
    /\ [][\A r \in {1, 2} : (r # cur \/ cur' # cur) => CallState(r)' = CallState(r)]_vars

\* both calls are under way, with different options and attempt counters: one
\* waits in its delay after a failure, the other awaits its first task() call
\* with its timer armed
C11_Witness ==
    /\ pc = "delay"
    /\ attempt = 1
    /\ other.pc = "task"
    /\ other.attempt = 0
    /\ other.timer = "armed"
    /\ other.options # options
    /\ cur = 1
    /\ timer = "unset"

====
